---- MODULE Spec2Model ----
(***************************************************************************)
(* BasicCli (Rust version): the file handler (utils/file_handler.rs) over  *)
(* a small filesystem, the benchmark runner (commands/benchmark.rs) as     *)
(* started by the CLI dispatcher (cli.rs), the dispatcher's process        *)
(* command, and the loggers (utils/logger.rs) used from two threads.       *)
(*                                                                         *)
(* A path is a sequence of file names and a file name is the sequence of   *)
(* its dot-separated segments: "d/b.txt" is << <<"d">>, <<"b","txt">> >>.  *)
(* The empty path is the working directory.                                *)
(***************************************************************************)
EXTENDS Integers, Sequences, FiniteSets, TLC

VARIABLES
    fs,        \* the filesystem: existing path -> node
    pre,       \* the filesystem when the last FileHandler call started
    last,      \* the last FileHandler call: its arguments and what it returned
    aw,        \* the atomic_write call in progress, if any
    bench,     \* the benchmark process: its position and the BenchmarkCommand
    results,   \* the Vec<BenchmarkResult> run_benchmarks is building
    proc,      \* the process command: its position, its log and its exit status
    logs       \* the logging threads, the loggers' mutexes and the sinks

fsVars == <<fs, pre, last, aw>>
benchVars == <<bench, results>>
vars == <<fs, pre, last, aw, bench, results, proc, logs>>

(***************************************************************************)
(* Paths                                                                   *)
(***************************************************************************)
Root == <<>>
PathA == << <<"a", "txt">> >>
PathD == << <<"d">> >>
PathDB == << <<"d">>, <<"b", "txt">> >>
\* The paths the caller passes to FileHandler.
UserPaths == {PathA, PathD, PathDB}

\* The paths the model follows: the callers' and their temporary siblings.  A
\* call that would make any other path (moving a directory with its entries)
\* is not made.
Universe ==
    {Root, PathA, PathD, PathDB,
     << <<"a", "tmp", "pid">> >>, << <<"d", "tmp", "pid">> >>,
     << <<"d">>, <<"b", "tmp", "pid">> >>}

\* Path::parent(): None for the empty path, else the path without its last name.
HasParent(p) == p # Root
Parent(p) == SubSeq(p, 1, Len(p) - 1)

\* p is q or lies below q.
IsPrefix(q, p) == Len(q) <= Len(p) /\ SubSeq(p, 1, Len(q)) = q

\* Path::file_stem() of a file name: the name up to its last dot; the whole
\* name when it has no dot or only a leading one.
FileStem(name) ==
    IF Len(name) = 1 \/ (Len(name) = 2 /\ name[1] = "")
    THEN name
    ELSE SubSeq(name, 1, Len(name) - 1)

\* Path::with_extension(ext): the last name's extension replaced by ext; a path
\* without a file name is returned as it is.
WithExtension(p, ext) ==
    IF p = Root THEN p
    ELSE Append(Parent(p), FileStem(p[Len(p)]) \o ext)

\* format!("tmp.{}", std::process::id()): the process id is one fixed segment.
TempExtension == <<"tmp", "pid">>
TempPathDirect(p) == p
TempPath(p) == WithExtension(p, TempExtension)

(***************************************************************************)
(* Strings and bytes: a &str is a sequence of code points, a file holds    *)
(* bytes.  str::as_bytes is the UTF-8 encoding, read_to_string decodes.    *)
(***************************************************************************)
\* "", "h" and "h" followed by e-acute (one code point, two bytes in UTF-8)
StrInputs == {<<>>, <<104>>, <<104, 233>>}

Utf8EncodeChar(cp) ==
    IF cp < 128 THEN <<cp>> ELSE <<192 + (cp \div 64), 128 + (cp % 64)>>

RECURSIVE Utf8Encode(_)
Utf8Encode(s) ==
    IF s = <<>> THEN <<>> ELSE Utf8EncodeChar(Head(s)) \o Utf8Encode(Tail(s))

IsContinuation(b) == b >= 128 /\ b < 192

RECURSIVE Utf8Valid(_)
Utf8Valid(b) ==
    IF b = <<>> THEN TRUE
    ELSE IF b[1] < 128 THEN Utf8Valid(Tail(b))
    ELSE IF b[1] >= 194 /\ b[1] < 224 /\ Len(b) >= 2 /\ IsContinuation(b[2])
         THEN Utf8Valid(Tail(Tail(b)))
    ELSE FALSE

\* Defined on valid input only.
RECURSIVE Utf8Decode(_)
Utf8Decode(b) ==
    IF b = <<>> THEN <<>>
    ELSE IF b[1] < 128 THEN <<b[1]>> \o Utf8Decode(Tail(b))
    ELSE <<(b[1] - 192) * 64 + (b[2] - 128)>> \o Utf8Decode(Tail(Tail(b)))

(***************************************************************************)
(* The filesystem                                                          *)
(***************************************************************************)
DirNode == [kind |-> "dir", bytes |-> <<>>]
FileNode(b) == [kind |-> "file", bytes |-> b]

PathExists(f, p) == p \in DOMAIN f
IsDir(f, p) == p \in DOMAIN f /\ f[p].kind = "dir"
IsFile(f, p) == p \in DOMAIN f /\ f[p].kind = "file"

Put(f, p, n) == [q \in DOMAIN f \cup {p} |-> IF q = p THEN n ELSE f[q]]
Remove(f, p) == [q \in DOMAIN f \ {p} |-> f[q]]
HasChildren(f, p) == \E q \in DOMAIN f : q # p /\ IsPrefix(p, q)

\* What an observer of path p sees: nothing, a directory, or a file's bytes.
Observe(f, p) == IF p \in DOMAIN f THEN f[p] ELSE [kind |-> "none", bytes |-> <<>>]

\* The working directory exists and every entry lies in a directory.
FsWellFormed(f) ==
    /\ IsDir(f, Root)
    /\ \A p \in DOMAIN f : p # Root => IsDir(f, Parent(p))

(***************************************************************************)
(* Results: Ok(value) or Err(kind).  The kinds are the FileError variants  *)
(* the code constructs, and the errors it passes on that are no FileError: *)
(*   "IoError"  a std::io::Error propagated by `?`;                        *)
(*   "Context"  a std::io::Error under anyhow's with_context message;      *)
(*   "Message"  an ad-hoc anyhow message (bail! with a format string).     *)
(***************************************************************************)
FileErrorKinds ==
    {"NotFound", "ReadError", "WriteError", "InvalidJson", "InvalidYaml",
     "InvalidCsv", "UnsupportedFormat", "OperationFailed"}

Unit == <<>>
Ok(v) == [ok |-> TRUE, err |-> "", val |-> v]
Err(k) == [ok |-> FALSE, err |-> k, val |-> Unit]
Outcome(f, r) == [fs |-> f, res |-> r]

(***************************************************************************)
(* std::fs, as the handler uses it.  Each operator gives the set of        *)
(* outcomes of one call: the filesystem after it and whether it succeeded. *)
(* Besides the failures the filesystem's state decides, any call that      *)
(* touches the disk may fail on its own (permissions, a full disk).        *)
(***************************************************************************)
RECURSIVE CreateDirAll(_, _)
CreateDirAll(f, p) ==
    IF p = Root THEN {Outcome(f, TRUE)}
    ELSE IF PathExists(f, p) THEN {Outcome(f, IsDir(f, p))}
    ELSE UNION { IF u.res
                 THEN {Outcome(Put(u.fs, p, DirNode), TRUE), Outcome(u.fs, FALSE)}
                 ELSE {u}
                 : u \in CreateDirAll(f, Parent(p)) }

\* File::create: the file exists and is empty afterwards.
CanCreate(f, p) == p # Root /\ IsDir(f, Parent(p)) /\ ~IsDir(f, p)
FileCreate(f, p) ==
    IF CanCreate(f, p)
    THEN {Outcome(Put(f, p, FileNode(<<>>)), TRUE), Outcome(f, FALSE)}
    ELSE {Outcome(f, FALSE)}

\* fs::write: File::create, then write_all, which may stop after any prefix.
FsWrite(f, p, b) ==
    UNION { IF c.res
            THEN {Outcome(Put(c.fs, p, FileNode(SubSeq(b, 1, k))), k = Len(b))
                    : k \in 0..Len(b)}
            ELSE {c}
            : c \in FileCreate(f, p) }

\* fs::read_to_string: the decoded content, or nothing.
FsReadToString(f, p) ==
    IF IsFile(f, p) /\ Utf8Valid(f[p].bytes)
    THEN {Ok(Utf8Decode(f[p].bytes)), Err("io")}
    ELSE {Err("io")}

\* fs::remove_file
FsRemoveFile(f, p) ==
    IF IsFile(f, p)
    THEN {Outcome(Remove(f, p), TRUE), Outcome(f, FALSE)}
    ELSE {Outcome(f, FALSE)}

\* fs::rename: a file replaces a file, a directory an empty directory; the
\* destination's directory must exist; renaming a path to itself does nothing.
CanRename(f, s, d) ==
    /\ PathExists(f, s)
    /\ d # Root /\ s # Root
    /\ IsDir(f, Parent(d))
    /\ \/ s = d
       \/ /\ ~IsPrefix(s, d)
          /\ IF IsDir(f, s)
             THEN ~IsFile(f, d) /\ ~HasChildren(f, d)
             ELSE ~IsDir(f, d)
Renamed(f, s, d) ==
    IF s = d THEN f
    ELSE LET moved == {q \in DOMAIN f : IsPrefix(s, q)}
             target(q) == d \o SubSeq(q, Len(s) + 1, Len(q))
             kept == (DOMAIN f \ moved) \ {d}
         IN [q \in kept \cup {target(m) : m \in moved} |->
                IF q \in kept THEN f[q]
                ELSE f[CHOOSE m \in moved : target(m) = q]]
FsRename(f, s, d) ==
    IF CanRename(f, s, d)
    THEN {Outcome(Renamed(f, s, d), TRUE), Outcome(f, FALSE)}
    ELSE {Outcome(f, FALSE)}

\* fs::copy: the source must be a regular file; the destination is created or
\* truncated, then filled.  Copying a file onto itself is left to the platform:
\* it keeps the file or truncates it.
FsCopy(f, s, d) ==
    IF ~IsFile(f, s) \/ ~CanCreate(f, d) THEN {Outcome(f, FALSE)}
    ELSE IF s = d
    THEN {Outcome(f, TRUE), Outcome(Put(f, d, FileNode(<<>>)), TRUE), Outcome(f, FALSE)}
    ELSE {Outcome(Put(f, d, FileNode(f[s].bytes)), TRUE), Outcome(f, FALSE)}
         \cup {Outcome(Put(f, d, FileNode(SubSeq(f[s].bytes, 1, k))), FALSE)
                 : k \in 0..(Len(f[s].bytes) - 1)}

\* fs::metadata(path)?.len()
FsMetadata(f, p) ==
    IF PathExists(f, p)
    THEN {Ok([size |-> Len(f[p].bytes),
              is_directory |-> IsDir(f, p),
              is_file |-> IsFile(f, p)]),
          Err("io")}
    ELSE {Err("io")}

(***************************************************************************)
(* Checksums.  The digest crates are outside the repository: a digest is   *)
(* a fixed number of bytes computed from the content, and format!("{:x}")  *)
(* prints each byte as two lowercase hexadecimal digits.                   *)
(***************************************************************************)
Algorithms == {"md5", "sha1", "sha256", "sha512"}
AlgorithmInputs == Algorithms \cup {"crc32"}

DigestBytes(alg) ==
    CASE alg = "md5" -> 16
      [] alg = "sha1" -> 20
      [] alg = "sha256" -> 32
      [] alg = "sha512" -> 64

RECURSIVE Mix(_, _)
Mix(b, acc) ==
    IF b = <<>> THEN acc ELSE Mix(Tail(b), (acc * 31 + Head(b) + 1) % 65521)

Digest(alg, b) ==
    [i \in 1..DigestBytes(alg) |-> (Mix(b, DigestBytes(alg)) * i + i) % 256]

HexDigits == <<"0", "1", "2", "3", "4", "5", "6", "7",
               "8", "9", "a", "b", "c", "d", "e", "f">>

LowerHex(d) ==
    [i \in 1..(2 * Len(d)) |->
        LET byte == d[(i + 1) \div 2]
        IN IF i % 2 = 1 THEN HexDigits[(byte \div 16) + 1]
                        ELSE HexDigits[(byte % 16) + 1]]

(***************************************************************************)
(* FileHandler: each operation as the set of its outcomes, the filesystem  *)
(* after the call and the Result it returns.                               *)
(***************************************************************************)
NotFoundOutcome(f) == {Outcome(f, Err("NotFound"))}

\* FileHandler::exists
Exists(f, p) == PathExists(f, p)

\* FileHandler::read
Read(f, p) ==
    IF ~Exists(f, p) THEN NotFoundOutcome(f)
    ELSE {Outcome(f, IF r.ok THEN r ELSE Err("Context")) : r \in FsReadToString(f, p)}

\* `if let Some(parent) = path.parent() { fs::create_dir_all(parent)?; }`
CreateParents(f, p) ==
    IF HasParent(p) THEN CreateDirAll(f, Parent(p)) ELSE {Outcome(f, TRUE)}

\* FileHandler::write with the file opened for appending instead of truncated
WriteAppending(f, p, s) ==
    UNION { IF u.res
            THEN {Outcome(Put(w.fs, p, FileNode(Observe(u.fs, p).bytes \o w.fs[p].bytes)),
                          IF w.res THEN Ok(Unit) ELSE Err("Context"))
                    : w \in {x \in FsWrite(u.fs, p, Utf8Encode(s)) : IsFile(x.fs, p)}}
                 \cup {Outcome(u.fs, Err("Context"))}
            ELSE {Outcome(u.fs, Err("IoError"))}
            : u \in CreateParents(f, p) }

\* FileHandler::write
Write(f, p, s) ==
    UNION { IF u.res
            THEN {Outcome(w.fs, IF w.res THEN Ok(Unit) ELSE Err("Context"))
                    : w \in FsWrite(u.fs, p, Utf8Encode(s))}
            ELSE {Outcome(u.fs, Err("IoError"))}
            : u \in CreateParents(f, p) }

\* FileHandler::copy with the parent directories made before the source is looked at
CopyDirsFirst(f, s, d) ==
    UNION { IF ~u.res THEN {Outcome(u.fs, Err("IoError"))}
            ELSE IF ~Exists(u.fs, s) THEN NotFoundOutcome(u.fs)
            ELSE {Outcome(c.fs, IF c.res THEN Ok(Unit) ELSE Err("IoError"))
                    : c \in FsCopy(u.fs, s, d)}
            : u \in CreateParents(f, d) }

\* FileHandler::copy
Copy(f, s, d) ==
    IF ~Exists(f, s) THEN NotFoundOutcome(f)
    ELSE UNION { IF u.res
                 THEN {Outcome(c.fs, IF c.res THEN Ok(Unit) ELSE Err("IoError"))
                         : c \in FsCopy(u.fs, s, d)}
                 ELSE {Outcome(u.fs, Err("IoError"))}
                 : u \in CreateParents(f, d) }

\* FileHandler::move_file
MoveFile(f, s, d) ==
    IF ~Exists(f, s) THEN NotFoundOutcome(f)
    ELSE UNION { IF u.res
                 THEN {Outcome(r.fs, IF r.res THEN Ok(Unit) ELSE Err("IoError"))
                         : r \in FsRename(u.fs, s, d)}
                 ELSE {Outcome(u.fs, Err("IoError"))}
                 : u \in CreateParents(f, d) }

\* FileHandler::delete without the look at the path first
DeleteUnchecked(f, p) ==
    {Outcome(r.fs, IF r.res THEN Ok(TRUE) ELSE Err("IoError")) : r \in FsRemoveFile(f, p)}

\* FileHandler::delete
Delete(f, p) ==
    IF ~Exists(f, p) THEN {Outcome(f, Ok(FALSE))}
    ELSE {Outcome(r.fs, IF r.res THEN Ok(TRUE) ELSE Err("IoError"))
            : r \in FsRemoveFile(f, p)}

\* FileHandler::size
Size(f, p) ==
    IF ~Exists(f, p) THEN NotFoundOutcome(f)
    ELSE {Outcome(f, IF m.ok THEN Ok(m.val.size) ELSE Err("IoError"))
            : m \in FsMetadata(f, p)}

\* FileHandler::stats
Stats(f, p) ==
    IF ~Exists(f, p) THEN NotFoundOutcome(f)
    ELSE {Outcome(f, IF m.ok THEN m ELSE Err("IoError")) : m \in FsMetadata(f, p)}

\* File::open, read_to_end: the whole content, or nothing.
ReadToEnd(f, p) ==
    IF IsFile(f, p) THEN {Ok(f[p].bytes), Err("io")} ELSE {Err("io")}

\* The match on the algorithm name with SHA-256 for every name it does not know
HashWithDefault(alg, b) ==
    Ok(LowerHex(Digest(IF alg \in Algorithms THEN alg ELSE "sha256", b)))

\* The match on the algorithm name.
HashWith(alg, b) ==
    IF alg \in Algorithms THEN Ok(LowerHex(Digest(alg, b))) ELSE Err("Message")

\* FileHandler::checksum with the algorithm looked at before the path
ChecksumAlgorithmFirst(f, p, alg) ==
    IF alg \notin Algorithms THEN {Outcome(f, Err("Message"))}
    ELSE IF ~Exists(f, p) THEN NotFoundOutcome(f)
    ELSE {Outcome(f, IF b.ok THEN HashWith(alg, b.val) ELSE Err("IoError"))
            : b \in ReadToEnd(f, p)}

\* FileHandler::checksum
Checksum(f, p, alg) ==
    IF ~Exists(f, p) THEN NotFoundOutcome(f)
    ELSE {Outcome(f, IF b.ok THEN HashWith(alg, b.val) ELSE Err("IoError"))
            : b \in ReadToEnd(f, p)}

(***************************************************************************)
(* The caller: one FileHandler call after another, on the paths, contents  *)
(* and algorithm names above.  atomic_write runs in steps, so that what a  *)
(* reader of the destination sees in between is a state of the model.      *)
(***************************************************************************)
Call(op, p, d, s, alg, status, r) ==
    [op |-> op, path |-> p, dst |-> d, content |-> s, alg |-> alg,
     status |-> status, step |-> "", res |-> r]

NoCall == Call("none", Root, Root, <<>>, "", "returned", Ok(Unit))
AwIdle == [stage |-> "idle", path |-> Root, temp |-> Root, bytes |-> <<>>, written |-> 0]
Idle == aw.stage = "idle"

InitFs ==
    /\ fs = [p \in {Root} |-> DirNode]
    /\ pre = [p \in {Root} |-> DirNode]
    /\ last = NoCall
    /\ aw = AwIdle

\* A whole call: it starts in fs and ends in one of its outcomes.
Returns(op, p, d, s, alg, outcomes) ==
    /\ Idle
    /\ \E o \in outcomes :
          /\ DOMAIN o.fs \subseteq Universe
          /\ fs' = o.fs
          /\ last' = Call(op, p, d, s, alg, "returned", o.res)
    /\ pre' = fs
    /\ UNCHANGED <<aw, bench, results, proc, logs>>

DoRead == \E p \in UserPaths : Returns("read", p, Root, <<>>, "", Read(fs, p))

DoWrite ==
    \E p \in UserPaths, s \in StrInputs :
        Returns("write", p, Root, s, "", Write(fs, p, s))

DoCopy ==
    \E p \in UserPaths, d \in UserPaths :
        Returns("copy", p, d, <<>>, "", Copy(fs, p, d))

DoMoveFile ==
    \E p \in UserPaths, d \in UserPaths :
        Returns("move_file", p, d, <<>>, "", MoveFile(fs, p, d))

DoDelete == \E p \in UserPaths : Returns("delete", p, Root, <<>>, "", Delete(fs, p))

DoExists ==
    \E p \in UserPaths :
        Returns("exists", p, Root, <<>>, "", {Outcome(fs, Ok(Exists(fs, p)))})

DoSize == \E p \in UserPaths : Returns("size", p, Root, <<>>, "", Size(fs, p))

DoStats == \E p \in UserPaths : Returns("stats", p, Root, <<>>, "", Stats(fs, p))

DoChecksum ==
    \E p \in UserPaths, alg \in AlgorithmInputs :
        Returns("checksum", p, Root, <<>>, alg, Checksum(fs, p, alg))

(***************************************************************************)
(* FileHandler::atomic_write, step by step:                                *)
(*   Self::write(&temp_path, content)?  -- parents, create, write_all      *)
(*   fs::rename(&temp_path, path)?                                         *)
(***************************************************************************)
AwReturn(r) ==
    /\ aw' = AwIdle
    /\ last' = [last EXCEPT !.status = "returned", !.step = aw.stage, !.res = r]

AwContinue(stage, written) ==
    /\ aw' = [aw EXCEPT !.stage = stage, !.written = written]
    /\ UNCHANGED last

AtomicWriteCall ==
    /\ Idle
    /\ \E p \in UserPaths, s \in StrInputs :
          /\ aw' = [stage |-> "parents", path |-> p, temp |-> TempPath(p),
                    bytes |-> Utf8Encode(s), written |-> 0]
          /\ last' = Call("atomic_write", p, Root, s, "", "running", Ok(Unit))
    /\ pre' = fs
    /\ UNCHANGED <<fs, bench, results, proc, logs>>

AwCreateParents ==
    /\ aw.stage = "parents"
    /\ \E u \in CreateParents(fs, aw.temp) :
          /\ fs' = u.fs
          /\ IF u.res THEN AwContinue("create", 0) ELSE AwReturn(Err("IoError"))
    /\ UNCHANGED <<pre, bench, results, proc, logs>>

AwCreate ==
    /\ aw.stage = "create"
    /\ \E c \in FileCreate(fs, aw.temp) :
          /\ fs' = c.fs
          /\ IF ~c.res THEN AwReturn(Err("Context"))
             ELSE AwContinue(IF aw.bytes = <<>> THEN "rename" ELSE "write", 0)
    /\ UNCHANGED <<pre, bench, results, proc, logs>>

AwWriteByte ==
    /\ aw.stage = "write"
    /\ \/ /\ fs' = Put(fs, aw.temp, FileNode(SubSeq(aw.bytes, 1, aw.written + 1)))
          /\ AwContinue(IF aw.written + 1 = Len(aw.bytes) THEN "rename" ELSE "write",
                        aw.written + 1)
       \/ /\ UNCHANGED fs
          /\ AwReturn(Err("Context"))
    /\ UNCHANGED <<pre, bench, results, proc, logs>>

\* The rename step with the temporary file removed when the rename fails
AwRenameStepCleanup(f, t, p) ==
    {IF o.res THEN o ELSE Outcome(Remove(o.fs, t), FALSE) : o \in FsRename(f, t, p)}

\* fs::rename(&temp_path, path)?
AwRenameStep(f, t, p) == FsRename(f, t, p)

AwRename ==
    /\ aw.stage = "rename"
    /\ \E r \in AwRenameStep(fs, aw.temp, aw.path) :
          /\ fs' = r.fs
          /\ AwReturn(IF r.res THEN Ok(Unit) ELSE Err("IoError"))
    /\ UNCHANGED <<pre, bench, results, proc, logs>>

\* The process is killed in the middle of the call.
AwInterrupt ==
    /\ ~Idle
    /\ aw' = AwIdle
    /\ last' = [last EXCEPT !.status = "killed", !.step = aw.stage]
    /\ UNCHANGED <<fs, pre, bench, results, proc, logs>>

\* The caller of the whole-call operations.
NextFs ==
    \/ DoRead \/ DoWrite \/ DoCopy \/ DoMoveFile \/ DoDelete \/ DoExists
    \/ DoSize \/ DoStats \/ DoChecksum

\* The caller of atomic_write, who also reads and deletes.
NextAtomic ==
    \/ AtomicWriteCall \/ AwCreateParents \/ AwCreate \/ AwWriteByte \/ AwRename
    \/ AwInterrupt \/ DoRead \/ DoDelete

(***************************************************************************)
(* The benchmark runner.                                                   *)
(*                                                                         *)
(* An iteration count is a usize; on a 64-bit target it is                 *)
(* hi * 2^32 + lo, kept as the pair of its two 32-bit halves.  A Duration  *)
(* is Rust's pair of whole seconds and nanoseconds below one second.       *)
(***************************************************************************)
MaxHi == 1
MaxLo == 3
NanosPerSec == 1000000000

Usize(hi, lo) == [hi |-> hi, lo |-> lo]
UsizeInputs == {Usize(hi, lo) : hi \in 0..MaxHi, lo \in 0..MaxLo}
IsZero(n) == n.hi = 0 /\ n.lo = 0

\* `n as u32`: the low 32 bits.
AsU32(n) == n.lo

Dur(secs, nanos) == [secs |-> secs, nanos |-> nanos]
ZeroDuration == Dur(0, 0)
\* What Instant::elapsed may return: nothing, 1.5 us, 2.5 ms, 1.5 s.
Durations == {ZeroDuration, Dur(0, 1500), Dur(0, 2500000), Dur(1, 500000000)}

\* Duration / u32 (Duration::checked_div), for rhs > 0.
DurationDiv(d, rhs) ==
    LET carry == d.secs % rhs
        extra == ((carry * NanosPerSec) + (d.nanos % rhs)) \div rhs
    IN Dur(d.secs \div rhs, (d.nanos \div rhs) + extra)

\* `n as f64 / d.as_secs_f64()`: the quotient of the full count by the time,
\* kept as its two operands and its IEEE class.
F64Div(n, d) ==
    [num |-> n, den |-> d,
     class |-> IF d = ZeroDuration
               THEN (IF IsZero(n) THEN "nan" ELSE "inf")
               ELSE (IF IsZero(n) THEN "zero" ELSE "positive")]

\* x > 0.0
F64Positive(x) == x.class \in {"positive", "inf"}

OutputInputs == {"console", "json", "csv", "xml"}

InitBench ==
    /\ bench = [pc |-> "start", iterations |-> Usize(0, 0),
                output_format |-> "", verbose |-> FALSE, file_io |-> "",
                printed |-> "", report |-> <<>>, exit |-> 0]
    /\ results = <<>>

\* Cli::parse and Commands::Benchmark: BenchmarkCommand::new(iterations, output,
\* verbose), then execute up to its call of run_benchmarks.
StartBenchmark ==
    /\ bench.pc = "start"
    /\ \E n \in UsizeInputs, o \in OutputInputs, v \in BOOLEAN :
          bench' = [bench EXCEPT !.pc = "string_manipulation", !.iterations = n,
                                 !.output_format = o, !.verbose = v]
    /\ UNCHANGED <<fs, pre, last, aw, results, proc, logs>>

\* The BenchmarkResult literal every workload ends with.
BenchmarkResult(name, n, d) ==
    [name |-> name, iterations |-> n, total_time |-> d,
     avg_time |-> DurationDiv(d, AsU32(n)),
     ops_per_sec |-> F64Div(n, d)]

\* One workload: its loop runs, the clock is read, and the result is built;
\* dividing the Duration by zero panics.  io is what became of the File I/O
\* workload's temporary file, which the other workloads leave alone.
Workload(pc, name, next, io) ==
    /\ bench.pc = pc
    /\ \E d \in Durations :
          IF AsU32(bench.iterations) = 0
          THEN /\ bench' = [bench EXCEPT !.pc = "panicked", !.exit = 101, !.file_io = io]
               /\ UNCHANGED results
          ELSE /\ bench' = [bench EXCEPT !.pc = next, !.file_io = io]
               /\ results' = Append(results, BenchmarkResult(name, bench.iterations, d))
    /\ UNCHANGED <<fs, pre, last, aw, proc, logs>>

BenchmarkStringManipulation ==
    Workload("string_manipulation", "String Manipulation", "array_operations",
             bench.file_io)

BenchmarkArrayOperations ==
    Workload("array_operations", "Array Operations", "file_io", bench.file_io)

\* NamedTempFile::new() may fail, and then nothing is written; each write_all
\* and flush may fail, and the loop goes on.  No failure is looked at.
FileIoOutcomes == {"no_temp_file", "all_written", "write_errors_ignored"}

\* benchmark_file_io with the failures unwrapped instead of ignored
BenchmarkFileIoUnwrap ==
    \E io \in FileIoOutcomes :
        IF io = "all_written" THEN Workload("file_io", "File I/O", "json_parsing", io)
        ELSE /\ bench.pc = "file_io"
             /\ bench' = [bench EXCEPT !.pc = "panicked", !.exit = 101, !.file_io = io]
             /\ UNCHANGED <<fs, pre, last, aw, results, proc, logs>>

BenchmarkFileIo ==
    \E io \in FileIoOutcomes : Workload("file_io", "File I/O", "json_parsing", io)

BenchmarkJsonParsing ==
    Workload("json_parsing", "JSON Parsing", "hash_operations", bench.file_io)

BenchmarkHashOperations ==
    Workload("hash_operations", "Hash Operations", "output", bench.file_io)

(***************************************************************************)
(* The three renderers.  A printed time is kept as the number of           *)
(* nanoseconds the printed figure stands for.                              *)
(***************************************************************************)
\* Duration::as_millis, Duration::as_micros: whole units, the rest cut off
AsMillis(d) == (d.secs * 1000) + (d.nanos \div 1000000)
AsMicros(d) == (d.secs * 1000000) + (d.nanos \div 1000)

\* `{:.k}` of d.as_secs_f64(): the nearest multiple of unit nanoseconds (for
\* the Durations above the double is not below a tie, so a tie rounds up).
SecsFixed(d, unit) ==
    ((((d.secs * NanosPerSec) + d.nanos) + (unit \div 2)) \div unit) * unit

\* format_duration
FormatDuration(d) ==
    IF d.secs > 0 THEN SecsFixed(d, 10000000)
    ELSE IF AsMillis(d) > 0 THEN AsMillis(d) * 1000000
    ELSE AsMicros(d) * 1000

Row(r, total, avg) ==
    [name |-> r.name, iterations |-> r.iterations, total |-> total, avg |-> avg]

\* output_console
OutputConsole(rs) ==
    [i \in 1..Len(rs) |->
        Row(rs[i], FormatDuration(rs[i].total_time), FormatDuration(rs[i].avg_time))]

\* output_json: total_time_ms and avg_time_ms
OutputJson(rs) ==
    [i \in 1..Len(rs) |->
        Row(rs[i], AsMillis(rs[i].total_time) * 1000000, AsMicros(rs[i].avg_time) * 1000)]

\* output_csv: `{:.6}` and `{:.9}` of the seconds
OutputCsv(rs) ==
    [i \in 1..Len(rs) |->
        Row(rs[i], SecsFixed(rs[i].total_time, 1000), SecsFixed(rs[i].avg_time, 1))]

Render(format, rs) ==
    CASE format = "json" -> OutputJson(rs)
      [] format = "csv" -> OutputCsv(rs)
      [] OTHER -> OutputConsole(rs)

\* The match on output_format, and main's Ok(()).
Output ==
    /\ bench.pc = "output"
    /\ bench' = [bench EXCEPT !.pc = "done", !.exit = 0,
                              !.printed = IF bench.output_format \in {"json", "csv"}
                                          THEN bench.output_format ELSE "console",
                              !.report = Render(bench.output_format, results)]
    /\ UNCHANGED <<fs, pre, last, aw, results, proc, logs>>

NextBench ==
    \/ StartBenchmark
    \/ BenchmarkStringManipulation \/ BenchmarkArrayOperations \/ BenchmarkFileIo
    \/ BenchmarkJsonParsing \/ BenchmarkHashOperations
    \/ Output

(***************************************************************************)
(* JSON and YAML text (serde_json, serde_yaml) of the values the caller    *)
(* serializes: a one-digit number, or an object of one-digit members.      *)
(***************************************************************************)
JsonNumber(n) == [kind |-> "number", n |-> n, members |-> <<>>]
JsonObject(members) == [kind |-> "object", n |-> 0, members |-> members]
Member(k, n) == [key |-> k, n |-> n]
JsonInputs == {JsonNumber(7), JsonObject(<<>>), JsonObject(<<Member(<<97>>, 1)>>)}

Digit(n) == <<48 + n>>

RECURSIVE JoinBytes(_, _)
JoinBytes(parts, sep) ==
    IF parts = <<>> THEN <<>>
    ELSE IF Len(parts) = 1 THEN Head(parts)
    ELSE Head(parts) \o sep \o JoinBytes(Tail(parts), sep)

\* serde_json::to_string
JsonCompact(v) ==
    IF v.kind = "number" THEN Digit(v.n)
    ELSE <<123>>
         \o JoinBytes([i \in 1..Len(v.members) |->
                          <<34>> \o Utf8Encode(v.members[i].key) \o <<34, 58>>
                          \o Digit(v.members[i].n)], <<44>>)
         \o <<125>>

\* serde_json::to_string_pretty: two spaces of indentation, "{}" when empty
JsonPretty(v) ==
    IF v.kind = "number" THEN Digit(v.n)
    ELSE IF v.members = <<>> THEN <<123, 125>>
    ELSE <<123, 10>>
         \o JoinBytes([i \in 1..Len(v.members) |->
                          <<32, 32, 34>> \o Utf8Encode(v.members[i].key) \o <<34, 58, 32>>
                          \o Digit(v.members[i].n)], <<44, 10>>)
         \o <<10, 125>>

\* serde_yaml::to_string: a block mapping, one "key: value" line per member
YamlText(v) ==
    IF v.kind = "number" THEN Digit(v.n) \o <<10>>
    ELSE IF v.members = <<>> THEN <<123, 125, 10>>
    ELSE JoinBytes([i \in 1..Len(v.members) |->
                       Utf8Encode(v.members[i].key) \o <<58, 32>>
                       \o Digit(v.members[i].n) \o <<10>>], <<>>)

\* FileHandler::write_json
WriteJson(f, p, v, pretty) ==
    Write(f, p, Utf8Decode(IF pretty THEN JsonPretty(v) ELSE JsonCompact(v)))

\* FileHandler::write_yaml
WriteYaml(f, p, v) == Write(f, p, Utf8Decode(YamlText(v)))

(***************************************************************************)
(* CSV (the csv crate with its defaults): fields separated by commas,      *)
(* records ended by a line feed, a field quoted when it holds a quote, a   *)
(* comma or a line break, a record with nothing in it written as "".       *)
(***************************************************************************)
\* Writer::write_record: the fields, quoted where needed (34 is the quote,
\* 44 the comma, 10 and 13 the line breaks), and the line feed.
CsvRecord(fields) ==
    LET RECURSIVE DoubleQuotes(_)
        DoubleQuotes(b) ==
            IF b = <<>> THEN <<>>
            ELSE (IF Head(b) = 34 THEN <<34, 34>> ELSE <<Head(b)>>)
                 \o DoubleQuotes(Tail(b))
        NeedsQuotes(b) == \E i \in 1..Len(b) : b[i] \in {34, 44, 10, 13}
        Field(b) == IF NeedsQuotes(b) THEN <<34>> \o DoubleQuotes(b) \o <<34>> ELSE b
        body == JoinBytes([i \in 1..Len(fields) |-> Field(Utf8Encode(fields[i]))], <<44>>)
    IN (IF body = <<>> THEN <<34, 34>> ELSE body) \o <<10>>

RECURSIVE CsvRecords(_)
CsvRecords(rows) ==
    IF rows = <<>> THEN <<>> ELSE CsvRecord(Head(rows)) \o CsvRecords(Tail(rows))

\* The records of a file.  The reader's automaton: st is where it is (between
\* records, at the start of a field, in a bare field, in a quoted field, after
\* a quote in a quoted field); blank lines are skipped.
CsvParse(bytes) ==
    LET RECURSIVE Scan(_, _, _, _, _)
        Scan(b, st, field, row, rows) ==
            IF b = <<>>
            THEN IF st = "record" THEN rows ELSE Append(rows, Append(row, field))
            ELSE LET c == Head(b)
                     rest == Tail(b)
                     EndField == Scan(rest, "field", <<>>, Append(row, field), rows)
                     EndRecord == Scan(rest, "record", <<>>, <<>>,
                                       Append(rows, Append(row, field)))
                     Take(next) == Scan(rest, next, Append(field, c), row, rows)
                     IsBreak == c \in {10, 13}
                 IN CASE st = "record" ->
                            IF IsBreak THEN Scan(rest, "record", <<>>, <<>>, rows)
                            ELSE Scan(b, "field", <<>>, <<>>, rows)
                      [] st = "field" ->
                            IF c = 34 THEN Scan(rest, "quoted", <<>>, row, rows)
                            ELSE IF c = 44 THEN EndField
                            ELSE IF IsBreak THEN EndRecord
                            ELSE Take("bare")
                      [] st = "bare" ->
                            IF c = 44 THEN EndField
                            ELSE IF IsBreak THEN EndRecord
                            ELSE Take("bare")
                      [] st = "quoted" ->
                            IF c = 34 THEN Scan(rest, "quote", field, row, rows)
                            ELSE Take("quoted")
                      [] st = "quote" ->
                            IF c = 34 THEN Take("quoted")
                            ELSE IF c = 44 THEN EndField
                            ELSE IF IsBreak THEN EndRecord
                            ELSE Take("bare")
    IN Scan(bytes, "record", <<>>, <<>>, <<>>)

\* The orders in which a HashMap may hand out the keys in s.
KeyOrders(s) ==
    {h \in [1..Cardinality(s) -> s] : \A i, j \in DOMAIN h : h[i] = h[j] => i = j}

\* The row with the keys the record lacks left out instead of written empty
CsvRowSkipMissing(headers, row) ==
    LET present == SelectSeq(headers, LAMBDA h : h \in DOMAIN row)
    IN [i \in 1..Len(present) |-> row[present[i]]]

\* `headers.iter().map(|h| row.get(h).unwrap_or(&String::new()).clone())`
CsvRow(headers, row) ==
    [i \in 1..Len(headers) |->
        IF headers[i] \in DOMAIN row THEN row[headers[i]] ELSE <<>>]

\* The file write_csv leaves for the header order h.
CsvFile(h, data) ==
    CsvRecords(<<h>> \o [i \in 1..Len(data) |-> CsvRow(h, data[i])])

\* FileHandler::write_csv.  The Writer hands the whole text to the file at
\* flush, and a failing disk may stop it after any prefix.
WriteCsv(f, p, data) ==
    IF data = <<>> THEN Write(f, p, <<>>)
    ELSE UNION { IF ~c.res THEN {Outcome(c.fs, Err("IoError"))}
                 ELSE UNION { LET b == CsvFile(h, data)
                              IN {Outcome(Put(c.fs, p, FileNode(SubSeq(b, 1, k))),
                                          IF k = Len(b) THEN Ok(Unit) ELSE Err("IoError"))
                                    : k \in 0..Len(b)}
                              : h \in KeyOrders(DOMAIN data[1]) }
                 : c \in FileCreate(f, p) }

\* `for (i, field) in record.iter().enumerate() { if let Some(header) =
\* headers.get(i) { map.insert(header, field) } }`: a later field under the
\* same header replaces the earlier one.
CsvMap(headers, record) ==
    LET n == IF Len(record) < Len(headers) THEN Len(record) ELSE Len(headers)
        keys == {Utf8Decode(headers[i]) : i \in 1..n}
        lastAt(k) == CHOOSE i \in 1..n :
                        /\ Utf8Decode(headers[i]) = k
                        /\ \A j \in 1..n : Utf8Decode(headers[j]) = k => j <= i
    IN [k \in keys |-> Utf8Decode(record[lastAt(k)])]

\* `reader.headers()?` and `for result in reader.records() { let record =
\* result?; ... }`: a Reader made by from_reader is not flexible, so a record
\* whose number of fields differs from the first record's is an error, and
\* so is a field that is not UTF-8.
CsvRead(b) ==
    LET Utf8(record) == \A i \in 1..Len(record) : Utf8Valid(record[i])
        RECURSIVE Collect(_, _, _)
        Collect(headers, rows, records) ==
            IF rows = <<>> THEN Ok(records)
            ELSE IF Len(Head(rows)) # Len(headers) THEN Err("CsvUnequalLengths")
            ELSE IF ~Utf8(Head(rows)) THEN Err("CsvUtf8")
            ELSE Collect(headers, Tail(rows),
                         Append(records, CsvMap(headers, Head(rows))))
        rows == CsvParse(b)
    IN IF rows = <<>> THEN Ok(<<>>)
       ELSE IF ~Utf8(Head(rows)) THEN Err("CsvUtf8")
       ELSE Collect(Head(rows), Tail(rows), <<>>)

\* FileHandler::read_csv: File::open fails on a missing path; reading a
\* directory or a failing disk fails inside the Reader.
ReadCsv(f, p) ==
    IF ~PathExists(f, p) THEN {Outcome(f, Err("IoError"))}
    ELSE IF IsDir(f, p) THEN {Outcome(f, Err("IoError")), Outcome(f, Err("CsvIo"))}
    ELSE {Outcome(f, Err("IoError")), Outcome(f, Err("CsvIo")),
          Outcome(f, CsvRead(f[p].bytes))}

(***************************************************************************)
(* The process command and the loggers before anything has called them.   *)
(***************************************************************************)
Threads == {1, 2}

ProcIdle ==
    [pc |-> "idle", file |-> Root, pretty |-> FALSE, stats |-> FALSE, level |-> "Info",
     content |-> <<>>, data |-> JsonNumber(0), out |-> <<>>, printed |-> <<>>,
     failure |-> "", exit |-> 0]

LogsIdle ==
    [phase |-> "setup", sink |-> <<"stdout", "stdout">>, level |-> <<"Info", "Info">>,
     target |-> [t \in Threads |-> <<>>], severity |-> [t \in Threads |-> "Info"],
     at |-> [t \in Threads |-> "done"], mutex |-> <<0, 0>>, stdout_lock |-> 0,
     stdout |-> <<>>, file |-> <<>>]

(***************************************************************************)
(* The caller of the format operations, on d/b.txt.  The directory may     *)
(* hold a CSV file another program left there: one whose second row is     *)
(* shorter than its header, or one whose second row is longer.             *)
(***************************************************************************)
FormatPaths == {PathDB}

\* {a: "1", b: "2"} then {b: ","}, and {a: "1"} then {b: ","}
CsvInputs ==
    {<<>>,
     <<(<<97>> :> <<49>>) @@ (<<98>> :> <<50>>), (<<98>> :> <<44>>)>>,
     <<(<<97>> :> <<49>>), (<<98>> :> <<44>>)>>}

\* "a,b\n1\n" and "a\n1,2\n"
ForeignCsv == {<<97, 44, 98, 10, 49, 10>>, <<97, 10, 49, 44, 50, 10>>}

InitFormats ==
    /\ fs \in {[p \in {Root} |-> DirNode]}
              \cup {Put(Put([p \in {Root} |-> DirNode], PathD, DirNode),
                        PathDB, FileNode(b)) : b \in ForeignCsv}
    /\ pre = fs
    /\ last = NoCall
    /\ aw = AwIdle
    /\ InitBench
    /\ proc = ProcIdle /\ logs = LogsIdle

DoWriteJson ==
    \E p \in FormatPaths, v \in JsonInputs, pretty \in BOOLEAN :
        Returns("write_json", p, Root, [data |-> v, pretty |-> pretty], "",
                WriteJson(fs, p, v, pretty))

DoWriteYaml ==
    \E p \in FormatPaths, v \in JsonInputs :
        Returns("write_yaml", p, Root, v, "", WriteYaml(fs, p, v))

DoWriteCsv ==
    \E p \in FormatPaths, data \in CsvInputs :
        Returns("write_csv", p, Root, data, "", WriteCsv(fs, p, data))

DoReadCsv ==
    \E p \in FormatPaths : Returns("read_csv", p, Root, <<>>, "", ReadCsv(fs, p))

NextFormats == DoWriteJson \/ DoWriteYaml \/ DoWriteCsv \/ DoReadCsv

(***************************************************************************)
(* serde_json::from_str for the JSON texts above: white space, numbers,    *)
(* and objects whose members are numbers under keys without escapes.  A    *)
(* step of the parser gives the value found and where the input goes on.   *)
(***************************************************************************)
JsonParse(b) ==
    LET At(i) == IF i \in 1..Len(b) THEN b[i] ELSE -1
        IsDigit(c) == c \in 48..57
        Fail == [ok |-> FALSE, val |-> JsonNumber(0), next |-> 0]
        Parsed(v, next) == [ok |-> TRUE, val |-> v, next |-> next]
        RECURSIVE SkipWs(_)
        SkipWs(i) == IF At(i) \in {32, 9, 10, 13} THEN SkipWs(i + 1) ELSE i
        \* A number: "0", or a digit from 1 to 9 and the digits after it.
        RECURSIVE DigitsAt(_, _)
        DigitsAt(i, n) ==
            IF IsDigit(At(i)) THEN DigitsAt(i + 1, n * 10 + (b[i] - 48))
            ELSE Parsed(JsonNumber(n), i)
        NumberAt(i) ==
            IF ~IsDigit(At(i)) THEN Fail
            ELSE IF b[i] = 48 THEN Parsed(JsonNumber(0), i + 1)
            ELSE DigitsAt(i, 0)
        \* The closing quote of the string whose first character is at i, or 0.
        RECURSIVE StringEnd(_)
        StringEnd(i) ==
            IF At(i) = 34 THEN i
            ELSE IF At(i) < 32 \/ At(i) = 92 THEN 0
            ELSE StringEnd(i + 1)
        RECURSIVE MembersAt(_, _)
        MembersAt(i, members) ==
            LET close == IF At(i) = 34 THEN StringEnd(i + 1) ELSE 0
                colon == SkipWs(close + 1)
                number == NumberAt(SkipWs(colon + 1))
                after == SkipWs(number.next)
                found == Append(members,
                                Member(Utf8Decode(SubSeq(b, i + 1, close - 1)),
                                       number.val.n))
            IN IF close = 0 \/ At(colon) # 58 \/ ~number.ok THEN Fail
               ELSE IF At(after) = 44 THEN MembersAt(SkipWs(after + 1), found)
               ELSE IF At(after) = 125 THEN Parsed(JsonObject(found), after + 1)
               ELSE Fail
        ValueAt(i) ==
            IF At(i) = 123
            THEN IF At(SkipWs(i + 1)) = 125
                 THEN Parsed(JsonObject(<<>>), SkipWs(i + 1) + 1)
                 ELSE MembersAt(SkipWs(i + 1), <<>>)
            ELSE NumberAt(i)
        v == ValueAt(SkipWs(1))
    \* one value, and nothing but white space around it
    IN IF v.ok /\ SkipWs(v.next) = Len(b) + 1 THEN Ok(v.val) ELSE Err("json")

\* obj.len()
JsonKeys(v) == Cardinality({v.members[i].key : i \in 1..Len(v.members)})

(***************************************************************************)
(* The process command (cli.rs, process_file) and the exit status of the   *)
(* process: std::process::exit(1) for a missing file, and the status the   *)
(* runtime gives when main returns an error.                               *)
(***************************************************************************)
LogLevel == [Debug |-> 0, Info |-> 1, Warn |-> 2, Error |-> 3, Fatal |-> 4]

NotFoundExit == 1
FailureExit == 1

\* Logger::log: a message below the logger's level is dropped, any other is
\* one more line of the output.
Log(level, severity, msg, n, out) ==
    IF LogLevel[severity] < LogLevel[level] THEN out
    ELSE Append(out, [kind |-> "log", severity |-> severity, msg |-> msg, n |-> n])

ProcessPaths == {PathA, PathD}
\* What the input file may hold: {"a":1} compact and pretty, 7, and then text
\* that is not JSON and bytes that are not text.
ProcessContents ==
    {JsonCompact(v) : v \in JsonInputs} \cup {JsonPretty(v) : v \in JsonInputs}
    \cup {<<123>>, <<104>>, <<195>>}

InitProcess ==
    /\ \E a \in {<<>>} \cup {<<b>> : b \in ProcessContents}, d \in BOOLEAN :
          fs = [p \in {Root} \cup (IF a = <<>> THEN {} ELSE {PathA})
                         \cup (IF d THEN {PathD} ELSE {}) |->
                   IF p = PathA THEN FileNode(a[1]) ELSE DirNode]
    /\ pre = fs
    /\ last = NoCall
    /\ aw = AwIdle
    /\ InitBench
    /\ proc = ProcIdle /\ logs = LogsIdle

ProcessExit(status, failure, out) ==
    proc' = [proc EXCEPT !.pc = "exited", !.exit = status, !.failure = failure,
                         !.out = out]

\* `let logger = Logger::new(..); logger.info("Processing file: ..")`
ProcessFile ==
    /\ proc.pc = "idle"
    /\ \E file \in ProcessPaths, pretty \in BOOLEAN, stats \in BOOLEAN :
          LET level == IF stats THEN "Debug" ELSE "Info"
          IN proc' = [proc EXCEPT !.pc = "exists", !.file = file, !.pretty = pretty,
                                  !.stats = stats, !.level = level,
                                  !.out = Log(level, "Info", "Processing file", 0, <<>>)]
    /\ UNCHANGED <<fsVars, benchVars, logs>>

\* `if !file.exists() { logger.error("File not found: .."); std::process::exit(1); }`
ProcessFileExists ==
    /\ proc.pc = "exists"
    /\ IF ~PathExists(fs, proc.file)
       THEN ProcessExit(NotFoundExit, "not_found",
                        Log(proc.level, "Error", "File not found", 0, proc.out))
       ELSE proc' = [proc EXCEPT !.pc = "read"]
    /\ UNCHANGED <<fsVars, benchVars, logs>>

\* `let content = std::fs::read_to_string(&file)?;`
ProcessRead ==
    /\ proc.pc = "read"
    /\ \E r \in FsReadToString(fs, proc.file) :
          IF r.ok THEN proc' = [proc EXCEPT !.pc = "parse", !.content = r.val]
          ELSE ProcessExit(FailureExit, "read", proc.out)
    /\ UNCHANGED <<fsVars, benchVars, logs>>

\* `serde_json::from_str(&content).map_err(|e| { logger.error("Invalid JSON: .."); e })?`
\* and `if let Some(obj) = data.as_object() { logger.info(".. {} keys", obj.len()) }`
ProcessParse ==
    /\ proc.pc = "parse"
    /\ LET v == JsonParse(Utf8Encode(proc.content))
       IN IF ~v.ok
          THEN ProcessExit(FailureExit, "json",
                           Log(proc.level, "Error", "Invalid JSON", 0, proc.out))
          ELSE proc' = [proc EXCEPT
                   !.pc = "print", !.data = v.val,
                   !.out = IF v.val.kind = "object"
                           THEN Log(proc.level, "Info", "Successfully parsed JSON",
                                    JsonKeys(v.val), proc.out)
                           ELSE proc.out]
    /\ UNCHANGED <<fsVars, benchVars, logs>>

\* `println!("{}", serde_json::to_string_pretty(&data)?)` or to_string
ProcessPrint ==
    /\ proc.pc = "print"
    /\ LET text == IF proc.pretty THEN JsonPretty(proc.data) ELSE JsonCompact(proc.data)
       IN IF proc.stats
          THEN proc' = [proc EXCEPT !.pc = "stats", !.printed = text,
                                    !.out = Append(proc.out, [kind |-> "print", severity |-> "",
                                                     msg |-> "", n |-> 0])]
          ELSE proc' = [proc EXCEPT !.pc = "exited", !.exit = 0,
                                    !.printed = text, !.out = Append(proc.out, [kind |-> "print", severity |-> "",
                                                     msg |-> "", n |-> 0])]
    /\ UNCHANGED <<fsVars, benchVars, logs>>

\* `if stats { let metadata = std::fs::metadata(&file)?; logger.info(..); logger.info(..) }`
ProcessStats ==
    /\ proc.pc = "stats"
    /\ \E m \in FsMetadata(fs, proc.file) :
          IF m.ok
          THEN ProcessExit(0, "",
                   Log(proc.level, "Info", "Processing complete", 0,
                       Log(proc.level, "Info", "File size", m.val.size, proc.out)))
          ELSE ProcessExit(FailureExit, "metadata", proc.out)
    /\ UNCHANGED <<fsVars, benchVars, logs>>

NextProcess ==
    \/ ProcessFile \/ ProcessFileExists \/ ProcessRead
    \/ ProcessParse \/ ProcessPrint \/ ProcessStats

(***************************************************************************)
(* The loggers (utils/logger.rs) used from two threads.  A Logger owns a   *)
(* Mutex around its output; Logger::new wraps a handle of the process's    *)
(* standard output, which has a lock of its own, and FileLogger::new wraps *)
(* a File it opens for appending.  writeln! hands the line and then the    *)
(* line break to the output: a File passes each on as it comes, the        *)
(* standard output takes its lock for both.                                *)
(***************************************************************************)
\* Who logs to what: sink[l] is the output of logger l, target[t] the loggers
\* thread t's call goes through, in order (several for a MultiLogger).
Scenarios ==
    {[sink |-> <<"stdout", "stdout">>, target |-> << <<1>>, <<1>> >>],      \* one Logger
     [sink |-> <<"stdout", "stdout">>, target |-> << <<1>>, <<2>> >>],      \* two Loggers
     [sink |-> <<"stdout", "stdout">>, target |-> << <<1, 2>>, <<1, 2>> >>],\* one MultiLogger
     [sink |-> <<"file", "file">>, target |-> << <<1>>, <<1>> >>],          \* one FileLogger
     [sink |-> <<"file", "file">>, target |-> << <<1>>, <<2>> >>]}          \* two, same file

\* FileLogger is at Info and has info and error only.
LevelsOf(sink) == IF sink = "file" THEN {"Info"} ELSE {"Debug", "Info", "Error"}
SeveritiesOf(sink) == IF sink = "file" THEN {"Info", "Error"} ELSE {"Debug", "Info", "Error"}

\* Logger::new / FileLogger::new / MultiLogger::new, and each thread's call
\* of debug, info or error.
LoggerSetup ==
    /\ logs.phase = "setup"
    /\ \E sc \in Scenarios :
       \E l1 \in LevelsOf(sc.sink[1]), l2 \in LevelsOf(sc.sink[2]) :
       \E s1 \in SeveritiesOf(sc.sink[Head(sc.target[1])]),
          s2 \in SeveritiesOf(sc.sink[Head(sc.target[2])]) :
          logs' = [logs EXCEPT !.phase = "running", !.sink = sc.sink,
                               !.level = <<l1, l2>>,
                               !.target = [t \in Threads |-> sc.target[t]],
                               !.severity = [t \in Threads |-> IF t = 1 THEN s1 ELSE s2],
                               !.at = [t \in Threads |-> "call"]]
    /\ UNCHANGED <<fsVars, benchVars, proc>>

Current(t) == Head(logs.target[t])
Chunk(part, t) ==
    [part |-> part, thread |-> t, logger |-> Current(t), severity |-> logs.severity[t]]

\* The call is over for this logger: on to the MultiLogger's next one.
LogReturned(l, t) ==
    [l EXCEPT !.target[t] = Tail(@),
              !.at[t] = IF Tail(logs.target[t]) = <<>> THEN "done" ELSE "call"]

\* `if severity < self.level { return; }`
LogCall(t) ==
    /\ logs.phase = "running" /\ logs.at[t] = "call"
    /\ logs' = IF LogLevel[logs.severity[t]] < LogLevel[logs.level[Current(t)]]
               THEN LogReturned(logs, t)
               ELSE [logs EXCEPT !.at[t] = "lock"]
    /\ UNCHANGED <<fsVars, benchVars, proc>>

\* `let mut output = self.output.lock().unwrap();`
LogLock(t) ==
    /\ logs.at[t] = "lock"
    /\ logs.mutex[Current(t)] = 0
    /\ logs' = [logs EXCEPT !.mutex[Current(t)] = t,
                            !.at[t] = IF logs.sink[Current(t)] = "stdout"
                                      THEN "stdout_lock" ELSE "line"]
    /\ UNCHANGED <<fsVars, benchVars, proc>>

\* writeln! on the standard output: Stdout::write_fmt locks it first
StdoutLock(t) ==
    /\ logs.at[t] = "stdout_lock"
    /\ logs.stdout_lock = 0
    /\ logs' = [logs EXCEPT !.stdout_lock = t, !.at[t] = "line"]
    /\ UNCHANGED <<fsVars, benchVars, proc>>

\* writeln!(output, "{}", formatted): the formatted line
WriteLine(t) ==
    /\ logs.at[t] = "line"
    /\ logs' = IF logs.sink[Current(t)] = "stdout"
               THEN [logs EXCEPT !.stdout = Append(@, Chunk("line", t)),
                                 !.at[t] = "newline"]
               ELSE [logs EXCEPT !.file = Append(@, Chunk("line", t)),
                                 !.at[t] = "newline"]
    /\ UNCHANGED <<fsVars, benchVars, proc>>

\* writeln!(output, "{}", formatted): the line break, after which the
\* standard output's lock is released
WriteNewline(t) ==
    /\ logs.at[t] = "newline"
    /\ logs' = IF logs.sink[Current(t)] = "stdout"
               THEN [logs EXCEPT !.stdout = Append(@, Chunk("newline", t)),
                                 !.stdout_lock = 0, !.at[t] = "unlock"]
               ELSE [logs EXCEPT !.file = Append(@, Chunk("newline", t)),
                                 !.at[t] = "unlock"]
    /\ UNCHANGED <<fsVars, benchVars, proc>>

\* The MutexGuard is dropped at the end of log.
LogUnlock(t) ==
    /\ logs.at[t] = "unlock"
    /\ logs' = [LogReturned(logs, t) EXCEPT !.mutex[Current(t)] = 0]
    /\ UNCHANGED <<fsVars, benchVars, proc>>

NextLogger ==
    \/ LoggerSetup
    \/ \E t \in Threads :
          \/ LogCall(t) \/ LogLock(t) \/ StdoutLock(t)
          \/ WriteLine(t) \/ WriteNewline(t) \/ LogUnlock(t)

Init == InitFs /\ InitBench /\ proc = ProcIdle /\ logs = LogsIdle

Spec == Init /\ [][NextFs]_vars

SpecAtomic == Init /\ [][NextAtomic]_vars

SpecBench == Init /\ [][NextBench]_vars

SpecFormats == InitFormats /\ [][NextFormats]_vars

SpecProcess == InitProcess /\ [][NextProcess]_vars

SpecLogger == Init /\ [][NextLogger]_vars

(***************************************************************************)
(* Properties of the benchmark runner (SpecBench)                          *)
(***************************************************************************)
Started == bench.pc # "start"
Finished == bench.pc \in {"output", "done"}

\* total / N for the full 64-bit count N >= 1.  Every Duration of the model is
\* shorter than 2^32 ns, so the quotient by a count of 2^32 or more is zero.
DurationDivUsize(d, n) == IF n.hi = 0 THEN DurationDiv(d, n.lo) ELSE ZeroDuration

DurationNonNegative(d) == d.secs >= 0 /\ d.nanos >= 0

\* C1: for every iteration count N >= 1 the CLI accepts, run_benchmarks
\* completes (no panic) and returns exactly five results, each with
\* iterations = N, ops_per_sec > 0 and total_time >= 0.
C1_FiveResultsForEveryPositiveCount ==
    (Started /\ ~IsZero(bench.iterations)) =>
        /\ bench.pc # "panicked"
        /\ Finished =>
              /\ Len(results) = 5
              /\ \A i \in 1..Len(results) :
                    /\ results[i].iterations = bench.iterations
                    /\ F64Positive(results[i].ops_per_sec)
                    /\ DurationNonNegative(results[i].total_time)

\* C2: a run with N = 0 never fails: no call with N = 0 is made, or it
\* completes and every workload reports zero throughput.
C2_ZeroCountNeverFails ==
    (Started /\ IsZero(bench.iterations)) =>
        /\ bench.pc # "panicked"
        /\ Finished =>
              /\ Len(results) = 5
              /\ \A i \in 1..Len(results) : results[i].ops_per_sec.class = "zero"

\* C3: for every workload and every N >= 1, avg_time is total_time divided by
\* the full count N, and ops_per_sec is N divided by total_time in seconds.
C3_AverageOverFullCount ==
    (Started /\ ~IsZero(bench.iterations)) =>
        \A i \in 1..Len(results) :
            /\ results[i].avg_time =
                   DurationDivUsize(results[i].total_time, bench.iterations)
            /\ results[i].ops_per_sec =
                   F64Div(bench.iterations, results[i].total_time)

(***************************************************************************)
(* Properties of the file handler (Spec, SpecAtomic)                       *)
(***************************************************************************)
Returned(op) == last.op = op /\ last.status = "returned"
Failed == last.status = "returned" /\ ~last.res.ok
FailedWith(k) == Failed /\ last.res.err = k

\* C4: after a successful write(path, content), read(path) returns exactly
\* content: every read that succeeds returns it, and the read can succeed.
C4_WriteReadRoundTrip ==
    (Returned("write") /\ last.res.ok) =>
        /\ \A o \in Read(fs, last.path) : o.res.ok => o.res.val = last.content
        /\ \E o \in Read(fs, last.path) : o.res.ok /\ o.fs = fs

\* A multi-byte string was written over a file that held something else.
C4_Witness ==
    /\ Returned("write") /\ last.res.ok
    /\ last.content = <<104, 233>>
    /\ IsFile(pre, last.path) /\ pre[last.path].bytes = <<104>>

\* C5 as stated: delete on a missing path returns false and changes nothing; on
\* any path that exists it returns true and the path no longer exists.
C5_DeleteAnyExistingPath ==
    Returned("delete") =>
        IF ~Exists(pre, last.path)
        THEN last.res.ok /\ last.res.val = FALSE /\ fs = pre
        ELSE last.res.ok /\ last.res.val = TRUE /\ ~Exists(fs, last.path)

\* C5, amended: delete on a missing path returns false and changes nothing; on
\* a path that exists it either returns true, and then the path was a regular
\* file and no longer exists, or it returns an error and changes nothing, which
\* is what it does on every directory.
C5_DeleteFileOrError ==
    Returned("delete") =>
        IF ~Exists(pre, last.path)
        THEN last.res.ok /\ last.res.val = FALSE /\ fs = pre
        ELSE IF last.res.ok
        THEN /\ last.res.val = TRUE
             /\ IsFile(pre, last.path)
             /\ ~Exists(fs, last.path)
             /\ fs = Remove(pre, last.path)
        ELSE last.res.err = "IoError" /\ fs = pre

\* delete was called on a directory.
C5_Witness == Returned("delete") /\ IsDir(pre, last.path) /\ Failed /\ fs = pre

\* C6: copy and move_file with a missing source fail with NotFound and leave
\* the filesystem as it was: no destination, no destination directory.
C6_MissingSourceChangesNothing ==
    ((Returned("copy") \/ Returned("move_file")) /\ ~Exists(pre, last.path)) =>
        FailedWith("NotFound") /\ fs = pre

\* The destination's directory did not exist either.
C6_Witness ==
    /\ Returned("copy")
    /\ ~Exists(pre, last.path)
    /\ last.dst = PathDB /\ ~Exists(pre, PathD)

\* C7: during and after an atomic_write(path, content), also one that fails or
\* is killed part-way, a reader of path sees what was there before the call or
\* the complete new content.
C7_DestinationNeverPartial ==
    last.op = "atomic_write" =>
        Observe(fs, last.path) \in
            {Observe(pre, last.path), FileNode(Utf8Encode(last.content))}

\* The call was killed with the temporary file half written, over a
\* destination that held other content.
C7_Witness ==
    /\ last.op = "atomic_write" /\ last.status = "killed"
    /\ IsFile(fs, TempPath(last.path))
    /\ fs[TempPath(last.path)].bytes = <<104, 195>>
    /\ IsFile(fs, last.path) /\ fs[last.path].bytes = <<104>>

RenameFailed == Returned("atomic_write") /\ last.step = "rename" /\ ~last.res.ok

\* C8: when atomic_write's rename fails, the call returns an error, the
\* destination is what it was before the call, and the temporary file is still
\* there with the new content.
C8_FailedRenameLeavesTemp ==
    RenameFailed =>
        /\ last.res.err = "IoError"
        /\ Observe(fs, last.path) = Observe(pre, last.path)
        /\ Observe(fs, WithExtension(last.path, TempExtension)) =
               FileNode(Utf8Encode(last.content))

\* The rename failed over a destination file that held other content.
C8_Witness ==
    /\ RenameFailed
    /\ last.content = <<104, 233>>
    /\ IsFile(pre, last.path) /\ pre[last.path].bytes = <<104>>

\* C9: every error a FileHandler operation returns is one of the eight
\* FileError kinds: a failed read is a ReadError, a failed write a WriteError,
\* a failed rename in move_file an OperationFailed, an unknown checksum
\* algorithm an UnsupportedFormat.
C9_ErrorsAreFileErrors ==
    Failed =>
        /\ last.res.err \in FileErrorKinds
        /\ (last.op = "read" /\ Exists(pre, last.path)) => last.res.err = "ReadError"
        /\ last.op = "write" => last.res.err = "WriteError"
        /\ (last.op = "move_file" /\ Exists(pre, last.path)) =>
               last.res.err \in {"WriteError", "OperationFailed"}
        /\ (last.op = "checksum" /\ last.alg \notin Algorithms) =>
               last.res.err \in {"NotFound", "ReadError", "UnsupportedFormat"}

\* C10: read, size, stats and checksum on a missing path fail with NotFound,
\* whatever the algorithm, and leave the filesystem as it was.
C10_MissingPathIsNotFound ==
    (last.op \in {"read", "size", "stats", "checksum"} /\ ~Exists(pre, last.path)) =>
        FailedWith("NotFound") /\ fs = pre

\* checksum of a missing path with an algorithm the handler does not know.
C10_Witness ==
    /\ Returned("checksum")
    /\ ~Exists(pre, last.path)
    /\ last.alg \notin Algorithms

\* Sanity: the filesystem stays a tree.
TreeInvariant == FsWellFormed(fs) /\ FsWellFormed(pre)

(***************************************************************************)
(* Properties of the format operations (SpecFormats)                       *)
(***************************************************************************)
\* The operations that write a destination in one call, and where.
Writers == {"write", "write_json", "write_yaml", "write_csv", "copy", "move_file"}
Destination(c) == IF c.op \in {"copy", "move_file"} THEN c.dst ELSE c.path

\* What the call c can do when started in f.
WriterOutcomes(c, f) ==
    CASE c.op = "write" -> Write(f, c.path, c.content)
      [] c.op = "write_json" -> WriteJson(f, c.path, c.content.data, c.content.pretty)
      [] c.op = "write_yaml" -> WriteYaml(f, c.path, c.content)
      [] c.op = "write_csv" -> WriteCsv(f, c.path, c.content)
      [] c.op = "copy" -> Copy(f, c.path, c.dst)
      [] c.op = "move_file" -> MoveFile(f, c.path, c.dst)

\* C11: every operation that writes a destination creates the missing parent
\* directories first, so that called on a path whose parent does not exist it
\* can succeed, leaving the parent directory and the destination file.
C11_WritersCreateParents ==
    (/\ last.status = "returned" /\ last.op \in Writers
     /\ HasParent(Destination(last))
     /\ ~PathExists(pre, Parent(Destination(last)))
     /\ last.op \in {"copy", "move_file"} => IsFile(pre, last.path)) =>
        /\ \E o \in WriterOutcomes(last, pre) :
              /\ o.res.ok
              /\ IsDir(o.fs, Parent(Destination(last)))
              /\ IsFile(o.fs, Destination(last))
        /\ last.res.ok => IsDir(fs, Parent(Destination(last)))

\* The fields of a parsed record, as strings.
Fields(record) == [j \in 1..Len(record) |-> Utf8Decode(record[j])]

\* C12: a successful write_csv leaves an empty file for an empty record list;
\* otherwise the file holds one header row, the keys of the first record each
\* once, then one row per record in order, with the record's value under each
\* header and the empty string where the record lacks the key.
C12_CsvFileLayout ==
    (Returned("write_csv") /\ last.res.ok) =>
        /\ IsFile(fs, last.path)
        /\ LET data == last.content
               rows == CsvParse(fs[last.path].bytes)
           IN IF data = <<>> THEN fs[last.path].bytes = <<>>
              ELSE /\ Len(rows) = Len(data) + 1
                   /\ LET headers == Fields(rows[1])
                      IN /\ {headers[j] : j \in 1..Len(headers)} = DOMAIN data[1]
                         /\ Len(headers) = Cardinality(DOMAIN data[1])
                         /\ \A i \in 1..Len(data) :
                               /\ Len(rows[i + 1]) = Len(headers)
                               /\ \A j \in 1..Len(headers) :
                                     Fields(rows[i + 1])[j] =
                                        IF headers[j] \in DOMAIN data[i]
                                        THEN data[i][headers[j]] ELSE <<>>

\* Two records, the second without the key a, written with b as the first
\* header over a file that was there before.
C12_Witness ==
    /\ Returned("write_csv") /\ last.res.ok
    /\ Len(last.content) = 2 /\ DOMAIN last.content[1] = {<<97>>, <<98>>}
    /\ IsFile(pre, last.path)
    /\ CsvParse(fs[last.path].bytes)[1] = << <<98>>, <<97>> >>

\* C13: read_csv takes the first row as the header and returns one record
\* per later row, in file order; a row with fewer fields than the header
\* gives a record without the missing keys and is never an error, so that
\* on a file of such rows only the disk can make read_csv fail.
C13_ShortRowsAreRecords ==
    (/\ Returned("read_csv") /\ IsFile(pre, last.path)
     /\ LET rows == CsvParse(pre[last.path].bytes)
        IN \A i \in 1..Len(rows) :
              /\ Len(rows[i]) <= Len(rows[1])
              /\ \A j \in 1..Len(rows[i]) : Utf8Valid(rows[i][j])) =>
        LET rows == CsvParse(pre[last.path].bytes)
        IN IF last.res.ok
           THEN /\ Len(last.res.val) = (IF rows = <<>> THEN 0 ELSE Len(rows) - 1)
                /\ \A i \in 1..Len(last.res.val) :
                      last.res.val[i] = CsvMap(rows[1], rows[i + 1])
           ELSE last.res.err \in {"IoError", "CsvIo"}

(***************************************************************************)
(* More properties of the file handler (Spec)                              *)
(***************************************************************************)
HexLength(alg) ==
    CASE alg = "md5" -> 32
      [] alg = "sha1" -> 40
      [] alg = "sha256" -> 64
      [] alg = "sha512" -> 128

LowercaseHex == {"0", "1", "2", "3", "4", "5", "6", "7", "8", "9",
                 "a", "b", "c", "d", "e", "f"}

\* C14: checksum of an existing file leaves it unchanged.  For md5, sha1,
\* sha256 and sha512 a checksum that is returned is a string of lowercase
\* hexadecimal digits of the algorithm's length (32 for md5, 64 for sha256),
\* the same for every file of the same content, and only a failing read
\* prevents it.  For any other name the call fails, with the
\* unsupported-algorithm message unless the read failed first.
C14_ChecksumIsFixedLengthHex ==
    (Returned("checksum") /\ IsFile(pre, last.path)) =>
        /\ fs = pre
        /\ IF last.alg \in Algorithms
           THEN /\ \E o \in Checksum(pre, last.path, last.alg) : o.res.ok
                /\ ~last.res.ok => last.res.err = "IoError"
                /\ last.res.ok =>
                      /\ Len(last.res.val) = HexLength(last.alg)
                      /\ \A i \in 1..Len(last.res.val) : last.res.val[i] \in LowercaseHex
                      /\ \A q \in UserPaths :
                            (IsFile(fs, q) /\ fs[q].bytes = fs[last.path].bytes) =>
                               \A o \in Checksum(fs, q, last.alg) :
                                  o.res.ok => o.res.val = last.res.val
           ELSE /\ ~last.res.ok
                /\ last.res.err \in {"Message", "IoError"}
                /\ \E o \in Checksum(pre, last.path, last.alg) :
                      ~o.res.ok /\ o.res.err = "Message"

\* An unknown algorithm name on a file that has content, of which another
\* file holds a copy.
C14_Witness ==
    /\ Returned("checksum") /\ FailedWith("Message")
    /\ IsFile(pre, last.path) /\ pre[last.path].bytes = <<104, 195, 169>>
    /\ \E q \in UserPaths \ {last.path} :
          IsFile(pre, q) /\ pre[q].bytes = pre[last.path].bytes

(***************************************************************************)
(* Properties of the process command (SpecProcess)                         *)
(***************************************************************************)
Exited == proc.pc = "exited"
LastLine == proc.out[Len(proc.out)]

\* C15: the process command on a file that does not exist logs the failure
\* and then exits with a nonzero status, one that no other failure
\* (unreadable file, invalid JSON, metadata error) exits with: those exit
\* with the generic error status.
C15_MissingFileExitIsDistinct ==
    Exited =>
        /\ ~PathExists(fs, proc.file) =>
              /\ proc.failure = "not_found"
              /\ LastLine.kind = "log" /\ LastLine.severity = "Error"
              /\ LastLine.msg = "File not found"
              /\ proc.exit # 0
        /\ proc.failure \in {"read", "json", "metadata"} =>
              /\ proc.exit = FailureExit
              /\ proc.exit # 0
              /\ proc.exit # NotFoundExit

(***************************************************************************)
(* More properties of the benchmark runner (SpecBench)                     *)
(***************************************************************************)
\* C16: for the same five results the console, JSON and CSV renderers
\* report the same values: what was printed has, for every result, the
\* iterations, total time and average time that each of the three renderers
\* gives for it, once the times are converted to one unit.
C16_RenderersAgree ==
    bench.pc = "done" =>
        \A format \in {"console", "json", "csv"} :
            Render(format, results) = bench.report

\* C17: after a successful move_file(source, destination) the source no
\* longer exists and the destination holds exactly what the source held;
\* after a successful copy(source, destination) the source is unchanged and
\* the destination holds what the source holds.
C17_MoveAndCopyKeepContent ==
    /\ (Returned("move_file") /\ last.res.ok) =>
          /\ ~Exists(fs, last.path)
          /\ Observe(fs, last.dst) = Observe(pre, last.path)
    /\ (Returned("copy") /\ last.res.ok) =>
          /\ Observe(fs, last.path) = Observe(pre, last.path)
          /\ Observe(fs, last.dst) = Observe(pre, last.path)

FileIoFailed == bench.file_io \in {"no_temp_file", "write_errors_ignored"}

\* C18: a failure inside the File I/O workload (no temporary file, or a
\* write or flush that fails) is never surfaced: the run does not panic, the
\* workload's result is there with iterations = N, every later workload adds
\* its result, and once the results are printed execute has returned Ok.
C18_FileIoFailuresAreSwallowed ==
    FileIoFailed =>
        /\ bench.pc \in {"json_parsing", "hash_operations", "output", "done"}
        /\ bench.exit = 0
        /\ Len(results) = (CASE bench.pc = "json_parsing" -> 3
                             [] bench.pc = "hash_operations" -> 4
                             [] OTHER -> 5)
        /\ results[3].name = "File I/O"
        /\ results[3].iterations = bench.iterations
        /\ Len(results) >= 4 => results[4].name = "JSON Parsing"
        /\ Len(results) >= 5 => results[5].name = "Hash Operations"

\* The temporary file could not be made, and execute has returned.
C18_Witness ==
    /\ bench.file_io = "no_temp_file"
    /\ bench.pc = "done" /\ bench.exit = 0
    /\ Len(results) = 5

(***************************************************************************)
(* Properties of the loggers (SpecLogger)                                  *)
(***************************************************************************)
\* Every line in s is followed at once by its own line break, unless it is
\* the last thing written, and every line break follows its line.
WholeLines(s) ==
    \A i \in 1..Len(s) :
        /\ s[i].part = "line" =>
              \/ i = Len(s)
              \/ /\ s[i + 1].part = "newline"
                 /\ s[i + 1].thread = s[i].thread /\ s[i + 1].logger = s[i].logger
        /\ s[i].part = "newline" =>
              /\ i > 1
              /\ s[i - 1].part = "line"
              /\ s[i - 1].thread = s[i].thread /\ s[i - 1].logger = s[i].logger

AboveLevel(s) ==
    \A i \in 1..Len(s) : LogLevel[s[i].severity] >= LogLevel[logs.level[s[i].logger]]

\* C19: when several threads log at once to the same sink, through one
\* Logger or through several Logger, FileLogger or MultiLogger instances on
\* the same standard output or file, every line is written whole, never
\* interleaved with another, and no message below its logger's level is
\* written.
C19_LinesAreWholeAndFiltered ==
    /\ WholeLines(logs.stdout) /\ WholeLines(logs.file)
    /\ AboveLevel(logs.stdout) /\ AboveLevel(logs.file)

====
